---- MODULE Spec2Model ----
(***************************************************************************)
(* A model of gigawork's history-walking workflow extractor               *)
(* (src/gigawork/extractors.py, src/gigawork/workflow_recognition.py).     *)
(*                                                                         *)
(* Conventions.  A Python value that may be None is a sequence of length   *)
(* at most one: None is <<>> and a value x is <<x>>.  A path is the        *)
(* sequence of the tokens of its string (".github", "/", "workflows",      *)
(* ...), so that str.startswith is a prefix test on sequences.  The bytes  *)
(* of a blob are a sequence of tokens, each standing for one line (or one  *)
(* byte) of the file.  An Entry keeps commit_hash and the eight fields     *)
(* that depend on the diff entry; author, committer and the two dates are  *)
(* copied from the commit beside commit_hash and are left out.             *)
(***************************************************************************)
EXTENDS Integers, Sequences, FiniteSets, TLC

\* ------------------------------------------------------------- bounds

\* Diff entries the runs go through at most, all runs together.
MaxDiffs == 2
\* Commits one walk visits at most.
MaxCommits == 2
\* Extraction runs over the same save directories.
MaxRuns == 2
\* Commits of a repository whose history is built before it is walked.
MaxHistory == 3
\* Lines of a text the classifier alone is given.
MaxLines == 3
\* Repositories of the list the batch driver is given.
MaxRepos == 3
\* Rows of the CSV file the uid script is given.
MaxRows == 4

\* ------------------------------------------------------ optional values

None == <<>>
Some(x) == <<x>>
IsNone(o) == Len(o) = 0
Val(o) == o[1]

startswith(s, prefix) ==
    /\ Len(prefix) <= Len(s)
    /\ SubSeq(s, 1, Len(prefix)) = prefix

\* --------------------------------------------------------------- paths

WORKFLOWS_DIRECTORY == <<".github", "/", "workflows">>

\* re.compile(r"^\.github/workflows/[^/]*\.(yml|yaml)$")
WORKFLOW_REGEX(path) ==
    /\ startswith(path, WORKFLOWS_DIRECTORY \o <<"/">>)
    /\ Len(path) > 4
    /\ \A i \in 5..Len(path) : path[i] # "/"
    /\ path[Len(path)] \in {".yml", ".yaml"}

\* path is an optional path (None when the entry has no such side).
is_workflow_path(path) ==
    IF IsNone(path) THEN FALSE ELSE WORKFLOW_REGEX(Val(path))

is_workflow_directory(path) ==
    IF IsNone(path) THEN FALSE
    ELSE startswith(Val(path), WORKFLOWS_DIRECTORY \o <<"/">>)

CI_YML == <<".github", "/", "workflows", "/", "ci", ".yml">>
README_MD == <<".github", "/", "workflows", "/", "README", ".md">>
OLD_YML == <<".github", "/", "workflows", "-old", "/", "ci", ".yml">>
MAIN_PY == <<"src", "/", "main", ".py">>

\* The paths of the diff entries the walks are given.
Paths == {CI_YML, README_MD, MAIN_PY}

\* ------------------------------------------------------------ contents

(* The tokens of a blob:                                                   *)
(*   "on:"       the line  on: push                                        *)
(*   "jobs:"     the line  jobs: {b: {uses: o/r/.github/workflows/w.yml@v1}} *)
(*   "\x6fn:"    the line  "\x6fn": push  (the key on, written escaped)    *)
(*   "#"         a comment line                                            *)
(*   "{"         an unclosed flow mapping: a YAML syntax error             *)
(*   "0xff"      a byte that is no valid UTF-8                             *)
(*   "runs-on:"  the line  runs-on: ubuntu-latest                          *)
Tokens == {"on:", "jobs:", "\\x6fn:", "#", "{", "0xff", "runs-on:"}

TokenCode(t) ==
    CASE t = "on:" -> 1
      [] t = "jobs:" -> 2
      [] t = "\\x6fn:" -> 3
      [] t = "#" -> 4
      [] t = "{" -> 5
      [] t = "0xff" -> 6
      [] t = "runs-on:" -> 7

\* Base of the digest's positional code: above every TokenCode.
DigestBase == 8

\* hashlib.sha256(data).hexdigest(): a digest that differs for different
\* byte sequences (collisions are left out, as the source's comment does).
RECURSIVE sha256(_)
sha256(data) ==
    IF Len(data) = 0 THEN 1
    ELSE TokenCode(data[Len(data)])
         + DigestBase * sha256(SubSeq(data, 1, Len(data) - 1))

FLOW_A == <<"on:", "jobs:">>
FLOW_B == <<"#", "on:", "jobs:">>
FLOW_ESC == <<"\\x6fn:", "jobs:">>
DOC == <<"on:", "jobs:", "{">>
TEXT == <<"#">>
BINARY == <<"0xff">>

\* The blob contents the walks are given: on the side that is classified
\* (the new side, or the old side of a deletion) and on the old side of a
\* modification or a rename.
Contents == {FLOW_A, FLOW_ESC, DOC, TEXT}
OldContents == {FLOW_A}

\* ---------------------------------------------------------- classifier

\* bytes.decode(): raises on bytes that are no UTF-8.
decodes(data) == \A i \in 1..Len(data) : data[i] # "0xff"

\* re.search(KEY_PRESENT % key, content, re.MULTILINE) on one line: the
\* key, optionally quoted, then a colon, anywhere in the line (the pattern
\* has no anchor, so the on of runs-on: matches).
KEY_PRESENT(key, line) ==
    \/ key = "on" /\ line \in {"on:", "runs-on:"}
    \/ key = "jobs" /\ line = "jobs:"

_is_probable_workflow(content) ==
    \A key \in {"on", "jobs"} :
        \E i \in 1..Len(content) : KEY_PRESENT(key, content[i])

\* read_yaml(content): ruamel's loader raises on a syntax error; duplicate
\* keys are allowed.  The result is the set of the document's top-level keys.
yaml_parses(content) == \A i \in 1..Len(content) : content[i] # "{"

read_yaml(content) ==
    {k \in {"on", "jobs", "runs-on"} :
        \E i \in 1..Len(content) :
            \/ k = "on" /\ content[i] \in {"on:", "\\x6fn:"}
            \/ k = "jobs" /\ content[i] = "jobs:"
            \/ k = "runs-on" /\ content[i] = "runs-on:"}

\* jsonschema.validate(data, SCHEMA): the schema requires on and jobs and
\* has no top-level property runs-on.
validate(data) == {"on", "jobs"} \subseteq data /\ "runs-on" \notin data

\* _is_valid_workflow with the two flags of its result in the other order.
_is_valid_workflow_swapped(content) ==
    IF yaml_parses(content)
    THEN IF validate(read_yaml(content)) THEN <<TRUE, TRUE>> ELSE <<FALSE, TRUE>>
    ELSE <<FALSE, FALSE>>

\* (is_yaml, is_workflow)
_is_valid_workflow(content) ==
    IF yaml_parses(content)
    THEN IF validate(read_yaml(content)) THEN <<TRUE, TRUE>> ELSE <<TRUE, FALSE>>
    ELSE <<FALSE, FALSE>>

\* is_valid_workflow that looks for the keys only in a text that parsed.
is_valid_workflow_of_parsed(content) ==
    <<_is_valid_workflow(content)[1],
      _is_valid_workflow(content)[1] /\ _is_probable_workflow(content),
      _is_valid_workflow(content)[2]>>

\* (is_yaml, is_probable, is_workflow)
is_valid_workflow(content) ==
    <<_is_valid_workflow(content)[1],
      _is_probable_workflow(content),
      _is_valid_workflow(content)[2]>>

\* ----------------------------------------------------------- extractor

\* class ChangeTypes(Enum): the values git's raw status letters map to.
ADDED == "A"
DELETED == "D"
MODIFIED == "M"
RENAMED == "R"
ChangeTypes == {ADDED, DELETED, MODIFIED, RENAMED}

\* The status letters a diff entry may carry; "X" is one the enumeration
\* does not know.
RawChangeTypes == ChangeTypes \cup {"X"}

Entry(commit_hash, file_path, previous_file_path, file_hash, previous_file_hash, change_type, valid_yaml, probably_workflow, valid_workflow) ==
    [commit_hash |-> commit_hash,
     file_path |-> file_path,
     previous_file_path |-> previous_file_path,
     file_hash |-> file_hash,
     previous_file_hash |-> previous_file_hash,
     change_type |-> change_type,
     valid_yaml |-> valid_yaml,
     probably_workflow |-> probably_workflow,
     valid_workflow |-> valid_workflow]

\* diff.a_path.startswith(self.directory) or diff.b_path.startswith(...)
_should_process_diff(diff, directory) ==
    startswith(diff.a_path, directory) \/ startswith(diff.b_path, directory)

\* _get_blob_parameters without its rule for a commit that has no parent.
_get_blob_parameters_of_status(diff, change_type, commit) ==
    IF change_type = DELETED
    THEN [blob |-> None, old_blob |-> diff.a_blob,
          path |-> None, previous_path |-> Some(diff.a_path),
          change_type |-> change_type]
    ELSE IF change_type = ADDED
    THEN [blob |-> diff.b_blob, old_blob |-> None,
          path |-> Some(diff.b_path), previous_path |-> None,
          change_type |-> change_type]
    ELSE [blob |-> diff.b_blob, old_blob |-> diff.a_blob,
          path |-> Some(diff.b_path), previous_path |-> Some(diff.a_path),
          change_type |-> change_type]

\* The sides taken as for a modification, whatever the change type.
blob_sides_of_both(diff, change_type) ==
    [blob |-> diff.b_blob, old_blob |-> diff.a_blob,
     path |-> Some(diff.b_path), previous_path |-> Some(diff.a_path)]

\* blob, old_blob, path, previous_path of _get_blob_parameters, by the
\* change type the diff entry came with.
blob_sides(diff, change_type) ==
    IF change_type = DELETED
    THEN [blob |-> None, old_blob |-> diff.a_blob,
          path |-> None, previous_path |-> Some(diff.a_path)]
    ELSE IF change_type = ADDED
    THEN [blob |-> diff.b_blob, old_blob |-> None,
          path |-> Some(diff.b_path), previous_path |-> None]
    ELSE [blob |-> diff.b_blob, old_blob |-> diff.a_blob,
          path |-> Some(diff.b_path), previous_path |-> Some(diff.a_path)]

\* The one parameter tuple of a diff entry.
_get_blob_parameters(diff, change_type, commit) ==
    LET sides == blob_sides(diff, change_type)
    IN  [blob |-> sides.blob,
         old_blob |-> sides.old_blob,
         path |-> sides.path,
         previous_path |-> sides.previous_path,
         change_type |-> IF commit.parents = 0 THEN ADDED ELSE change_type]

\* _get_blob_content that takes every blob for no blob.
_get_blob_content_of_none(blob) == <<None, None>>

\* (data, hash) of a blob, (None, None) of no blob.  A blob is its bytes.
_get_blob_content(blob) ==
    IF IsNone(blob) THEN <<None, None>>
    ELSE <<Some(Val(blob)), Some(sha256(Val(blob)))>>

\* classify that takes the bytes for text without decoding them.
classify_undecoded(data, old_data) ==
    LET side == IF IsNone(data) THEN old_data ELSE data
    IN  IF IsNone(side)
        THEN <<FALSE, FALSE, FALSE>>
        ELSE is_valid_workflow(Val(side))

\* The flags of _process_blob's try block: the text is the new side's, or
\* the old side's when there is no new side; any exception gives three False.
classify(data, old_data) ==
    LET side == IF IsNone(data) THEN old_data ELSE data
    IN  IF IsNone(side) \/ ~decodes(Val(side))
        THEN <<FALSE, FALSE, FALSE>>
        ELSE is_valid_workflow(Val(side))

\* _process_blob that leaves the change type as it is given.
_process_blob_of_type(blob, old_blob, commit, workflow_path, previous_workflow_path, change_type) ==
    LET new == _get_blob_content(blob)
        old == _get_blob_content(old_blob)
        flags == classify(new[1], old[1])
    IN  Entry(commit.hexsha, workflow_path, previous_workflow_path,
              new[2], old[2], change_type, flags[1], flags[2], flags[3])

\* The Entry _process_blob builds (its call of _save_content is part of
\* the action that uses it).
_process_blob(blob, old_blob, commit, workflow_path, previous_workflow_path, change_type) ==
    LET new == _get_blob_content(blob)
        old == _get_blob_content(old_blob)
        flags == classify(new[1], old[1])
        ct == IF change_type = RENAMED /\ new[2] # old[2]
              THEN MODIFIED ELSE change_type
    IN  Entry(commit.hexsha, workflow_path, previous_workflow_path,
              new[2], old[2], ct, flags[1], flags[2], flags[3])

\* -------------------------------------------------------------- router

\* WorkflowsExtractor._is_auxiliary
_is_auxiliary(entry) ==
    LET p == IF ~IsNone(entry.file_path) THEN entry.file_path
             ELSE entry.previous_file_path
    IN  ~(/\ is_workflow_directory(p)
          /\ (entry.valid_workflow \/ entry.probably_workflow))

\* The separators WorkflowsExtractor.__init__ builds, by name:
\* "workflow" is  lambda x: not self._is_auxiliary(x),  "any" is  lambda _: True.
accepts(sep, entry) ==
    IF sep = "workflow" THEN ~_is_auxiliary(entry) ELSE TRUE

\* The configuration WorkflowsExtractor.__init__ leaves in the extractor.
\* Partitions are numbered from 1 (Python's entries[0] is entries[1] here).
WorkflowsExtractor(save_directory, save_auxiliaries, auxiliary_save_directory) ==
    LET aux_dir == IF IsNone(auxiliary_save_directory) THEN save_directory
                   ELSE auxiliary_save_directory
    IN  [separators |-> IF save_auxiliaries THEN <<"workflow", "any">>
                        ELSE <<"workflow">>,
         save_directories |-> IF save_auxiliaries
                              THEN <<save_directory, aux_dir>>
                              ELSE <<save_directory>>]

\* _get_save_index with the separators tried from the last to the first.
_get_save_index_reversed(separators, entry) ==
    LET hits == {i \in 1..Len(separators) : accepts(separators[i], entry)}
    IN  IF hits = {} THEN None
        ELSE Some(CHOOSE i \in hits : \A j \in hits : i >= j)

\* The index of the first separator that accepts the entry, None if none does.
_get_save_index(separators, entry) ==
    LET hits == {i \in 1..Len(separators) : accepts(separators[i], entry)}
    IN  IF hits = {} THEN None
        ELSE Some(CHOOSE i \in hits : \A j \in hits : i <= j)

\* PathSeparatorFilesExtractor._save_entry: the partition lists afterwards.
_save_entry(separators, lists, entry) ==
    LET index == _get_save_index(separators, entry)
    IN  IF IsNone(index) THEN lists
        ELSE [lists EXCEPT ![Val(index)] = Append(@, entry)]

\* ------------------------------------------------------- content store

Dirs == {"workflows", "auxiliaries"}

\* save_one without the os.path.exists test: the file is opened every time.
save_one_unconditional(files, opened, calls, d, h, fault) ==
    IF IsNone(d)
    THEN [files |-> files, opened |-> opened, calls |-> calls, hit |-> FALSE]
    ELSE IF fault = "open"
    THEN [files |-> files, opened |-> opened, calls |-> calls, hit |-> TRUE]
    ELSE [files |-> (Val(h) :> (IF fault = "write"
                                THEN <<>> ELSE Val(d)))
                    @@ files,
          opened |-> (Val(h) :> (IF Val(h) \in DOMAIN opened
                                 THEN opened[Val(h)] + 1 ELSE 1))
                     @@ opened,
          calls |-> IF fault = "write" THEN calls
                    ELSE Append(calls, <<Val(d), Val(h)>>),
          hit |-> fault = "write"]

\* One round of _save_content's loop on the files of one directory:
\* files maps each existing file's name (a digest) to its bytes, opened
\* counts the times open(path, "wb") made each name, calls lists the
\* rounds that came to their end, as <<d, h>>.  fault is "none", "open"
\* (open() raises: no file is made) or "write" (write() raises: the file
\* is made and stays empty).  hit says that the fault happened.
save_one(files, opened, calls, d, h, fault) ==
    IF IsNone(d)
    THEN [files |-> files, opened |-> opened, calls |-> calls, hit |-> FALSE]
    ELSE IF Val(h) \in DOMAIN files
    THEN [files |-> files, opened |-> opened,
          calls |-> Append(calls, <<Val(d), Val(h)>>), hit |-> FALSE]
    ELSE IF fault = "open"
    THEN [files |-> files, opened |-> opened, calls |-> calls, hit |-> TRUE]
    ELSE [files |-> (Val(h) :> (IF fault = "write"
                                THEN <<>> ELSE Val(d)))
                    @@ files,
          opened |-> (Val(h) :> (IF Val(h) \in DOMAIN opened
                                 THEN opened[Val(h)] + 1 ELSE 1))
                     @@ opened,
          calls |-> IF fault = "write" THEN calls
                    ELSE Append(calls, <<Val(d), Val(h)>>),
          hit |-> fault = "write"]

\* _save_content whose loop is over (data, entry.file_hash) alone.
_save_content_of_data(separators, save_directories, disk, opens, data, old_data, entry, fault) ==
    LET i == _get_save_index(separators, entry)
        sd == IF IsNone(i) THEN None ELSE save_directories[Val(i)]
    IN  IF IsNone(sd)
        THEN [dir |-> None, files |-> <<>>, opened |-> <<>>, calls |-> <<>>,
              hit |-> FALSE]
        ELSE [dir |-> sd]
             @@ save_one(disk[Val(sd)], opens[Val(sd)], <<>>, data,
                         entry.file_hash,
                         IF fault.at = 1 THEN fault.kind ELSE "none")

\* _save_content that takes the last save directory for a partition that
\* has none.
_save_content_in_last(separators, save_directories, disk, opens, data, old_data, entry, fault) ==
    LET i == _get_save_index(separators, entry)
        sd == IF IsNone(i) THEN None
              ELSE IF IsNone(save_directories[Val(i)])
              THEN save_directories[Len(save_directories)]
              ELSE save_directories[Val(i)]
    IN  IF IsNone(sd)
        THEN [dir |-> None, files |-> <<>>, opened |-> <<>>, calls |-> <<>>,
              hit |-> FALSE]
        ELSE
          LET r1 == save_one(disk[Val(sd)], opens[Val(sd)], <<>>, data,
                             entry.file_hash,
                             IF fault.at = 1 THEN fault.kind ELSE "none")
              r2 == IF r1.hit THEN r1
                    ELSE save_one(r1.files, r1.opened, r1.calls, old_data,
                                  entry.previous_file_hash,
                                  IF fault.at = 2 THEN fault.kind ELSE "none")
          IN  [dir |-> sd] @@ r2

\* PathSeparatorFilesExtractor._save_content on the files of the entry's
\* save directory (dir is None when the entry has no partition or the
\* partition no directory: nothing is written).  fault.at is the round
\* (1: data, 2: old_data) the fault is for.  hit says that the call ended
\* in the fault's exception.
_save_content(separators, save_directories, disk, opens, data, old_data, entry, fault) ==
    LET i == _get_save_index(separators, entry)
        sd == IF IsNone(i) THEN None ELSE save_directories[Val(i)]
    IN  IF IsNone(sd)
        THEN [dir |-> None, files |-> <<>>, opened |-> <<>>, calls |-> <<>>,
              hit |-> FALSE]
        ELSE
          LET r1 == save_one(disk[Val(sd)], opens[Val(sd)], <<>>, data,
                             entry.file_hash,
                             IF fault.at = 1 THEN fault.kind ELSE "none")
              r2 == IF r1.hit THEN r1
                    ELSE save_one(r1.files, r1.opened, r1.calls, old_data,
                                  entry.previous_file_hash,
                                  IF fault.at = 2 THEN fault.kind ELSE "none")
          IN  [dir |-> sd] @@ r2

\* ----------------------------------------------------------- the state

VARIABLES
    extractor,  \* the WorkflowsExtractor: its separators and save_directories
    entries,    \* self.entries: one list of Entry per separator
    disk,       \* per save directory, the files in it: name |-> bytes
    opens,      \* per save directory and file name, the times open(path, "wb") made it
    log,        \* the commits iter_commits gave this run, HEAD first, each with the
                \* diff entries _extract_files has gone through
    built,      \* the Entry values _process_blob returned in this run, in order
    stored,     \* the rounds of _save_content's loop that came to their end in
                \* this run, in order: <<save directory, d, h>>
    status,     \* "committing" (the repository is being written), "walking",
                \* "done" (extract returned), "exit" (sys.exit(1)),
                \* "crashed" (an I/O error ended the process)
    run,        \* the number of this run over the save directories
    processed,  \* the diff entries gone through, all runs together
    repo,       \* the commits of the repository, oldest first, each with its
                \* tree and its diff against its parent (<<>>: the walk is
                \* over diff entries that are chosen as it goes)
    after,      \* main's --after: the position in repo of the commit the walk
                \* stops before, 0 without it
    output,     \* the rows main has written to the CSV output, in order
    text,       \* the classifier alone: the bytes of the blob it is given
    flags,      \* ... and the (is_yaml, is_probable, is_workflow) it gave
    to_process, \* the batch driver: the repositories of its list, in order,
                \* each with whether it is a directory
    attempts,   \* ... what became of each repository of the list so far, in
                \* order: whether gigawork was launched on it, and its returncode
    errors_count,   \* ... its errors_count
    error_files,    \* ... the files of the error directory: <<name, bytes>>
    error_directory,    \* ... whether --error-directory is given
    printed,    \* ... the count its last line printed, none before
    output_directory,   \* ... the files of the output directory: name |-> text
    merged,     \* ... the text written to merged.csv.gz, file by file, and
                \* whether the merge raised; none before the merge
    generated_ids,  \* the uid script: its dictionary, (repository, path) |-> uid
    rows,       \* ... the rows gen_id was applied to, oldest first
    uids,       \* ... the uid gen_id returned for each of them
    raised      \* ... whether gen_id raised ValueError

\* The state of the classifier alone, of the batch driver and of the uid
\* script, which the walk leaves alone.
driver == <<to_process, attempts, errors_count, error_files, error_directory,
            printed, output_directory, merged>>

script == <<generated_ids, rows, uids, raised>>

aside == <<text, flags, driver, script>>

vars == <<extractor, entries, disk, opens, log, built, stored, status, run,
          processed, repo, after, output, aside>>

\* The diff entries GitPython can hand over: a_path = b_path unless renamed,
\* and the sides that exist per status letter.  The walk over chosen diff
\* entries takes every letter for every commit, a commit without parents
\* included: _get_blob_parameters does not rely on the letters that
\* commit.diff(NULL_TREE) reports.
InPaths == {p \in Paths : startswith(p, WORKFLOWS_DIRECTORY)}

Diff(change_type, a_path, b_path, a_blob, b_blob) ==
    [change_type |-> change_type, a_path |-> a_path, b_path |-> b_path,
     a_blob |-> a_blob, b_blob |-> b_blob]

DiffRecords ==
    {Diff(ADDED, p, p, None, Some(c)) : p \in InPaths, c \in Contents}
    \cup {Diff(ADDED, p, p, None, Some(TEXT)) : p \in Paths \ InPaths}
    \cup {Diff(DELETED, p, p, Some(c), None) : p \in InPaths, c \in Contents}
    \cup {Diff(MODIFIED, p, p, Some(c[1]), Some(c[2])) :
            p \in InPaths, c \in {x \in OldContents \X Contents : x[1] # x[2]}}
    \cup {Diff(RENAMED, p[1], p[2], Some(c[1]), Some(c[2])) :
            p \in {x \in InPaths \X InPaths : x[1] # x[2]},
            c \in OldContents \X Contents}
    \cup {Diff("X", p, p, Some(TEXT), Some(TEXT)) : p \in InPaths}

\* The configurations WorkflowsExtractor.__init__ takes: the workflows
\* directory, with or without auxiliaries, these in the same directory
\* (auxiliary_save_directory is None) or in their own; and no directory
\* for the workflows (save_directory is None) with one for the auxiliaries.
Extractors ==
    {WorkflowsExtractor(Some("workflows"), FALSE, None),
     WorkflowsExtractor(Some("workflows"), TRUE, None),
     WorkflowsExtractor(Some("workflows"), TRUE, Some("auxiliaries")),
     WorkflowsExtractor(None, TRUE, Some("auxiliaries"))}

NoFault == [kind |-> "none", at |-> 0]

\* An I/O error in round at of _save_content's loop: open() raises, or
\* write() raises with the file made and its bytes still in the buffer.
Faults == {[kind |-> k, at |-> n] : k \in {"open", "write"}, n \in 1..2}

\* PathSeparatorFilesExtractor.__init__: one empty list per separator.
NoEntries(separators) == [i \in 1..Len(separators) |-> <<>>]

\* WorkflowsExtractor.__init__ on empty save directories, before extract.
Constructed ==
    /\ extractor \in Extractors
    /\ entries = NoEntries(extractor.separators)
    /\ disk = [sd \in Dirs |-> <<>>]
    /\ opens = [sd \in Dirs |-> <<>>]
    /\ log = <<>>
    /\ built = <<>>
    /\ stored = <<>>
    /\ run = 1
    /\ processed = 0
    /\ repo = <<>>
    /\ after = 0
    /\ output = <<>>

\* The classifier alone, the batch driver and the uid script before they run.
NoText ==
    /\ text = <<>>
    /\ flags = <<FALSE, FALSE, FALSE>>

NoBatch ==
    /\ to_process = <<>>
    /\ printed = <<>>
    /\ output_directory = <<>>
    /\ merged = <<>>
    /\ attempts = <<>>
    /\ errors_count = 0
    /\ error_files = {}
    /\ error_directory = FALSE

NoRows ==
    /\ generated_ids = <<>>
    /\ rows = <<>>
    /\ uids = <<>>
    /\ raised = FALSE

Aside == NoText /\ NoBatch /\ NoRows

\* The walk before there is an extractor.
NoWalk ==
    /\ Constructed
    /\ extractor = WorkflowsExtractor(Some("workflows"), FALSE, None)
    /\ status = "none"

Init ==
    /\ Constructed
    /\ Aside
    /\ status = "walking"

\* FilesExtractor.extract: iter_commits gives the next commit of the
\* first-parent history that touches the directory (none follows a commit
\* without parents), and _extract_files starts on it.
Extract(parents) ==
    /\ status = "walking"
    /\ repo = <<>>
    /\ Len(log) < MaxCommits
    /\ processed < MaxDiffs
    /\ log # <<>> => log[Len(log)].parents > 0 /\ log[Len(log)].diffs # <<>>
    /\ log' = Append(log, [hexsha |-> Len(log) + 1, parents |-> parents,
                           diffs |-> <<>>])
    /\ UNCHANGED <<extractor, entries, disk, opens, built, stored, status,
                   run, processed, repo, after, output, aside>>

\* ChangeTypes(diff.change_type) that takes any status letter.
change_type_never_raises(diff) == FALSE

\* ChangeTypes(diff.change_type) raises ValueError: the enumeration has no
\* member of that value.
change_type_raises(diff) == diff.change_type \notin ChangeTypes

\* The diff entry leaves the extractor as it is.
Skip(diff) ==
    /\ log' = [log EXCEPT ![Len(log)].diffs = Append(@, diff)]
    /\ UNCHANGED <<entries, disk, opens, built, stored, status>>

\* The process ends: its lists are lost, the directories keep their files.
Ended(how, files) ==
    /\ status' = how
    /\ disk' = files
    /\ entries' = NoEntries(extractor.separators)
    /\ log' = <<>>
    /\ built' = <<>>
    /\ stored' = <<>>

\* An except clause that logs the error and goes on with the next diff entry.
_extract_files_except_continue(diff) == Skip(diff)

\* The except ValueError clause of _extract_files: sys.exit(1).
_extract_files_except(diff) == Ended("exit", disk) /\ UNCHANGED opens

\* FilesExtractor._process_diff, with the _process_blob, _save_content and
\* _save_entry it calls.
\* unreadable: blob.data_stream.read() raises ValueError for this diff entry,
\* which _extract_files answers with sys.exit(1).
\* fault: an I/O error in _save_content, which nothing catches.
_process_diff(diff, commit, unreadable, fault) ==
    IF change_type_raises(diff)
    THEN ~unreadable /\ fault = NoFault /\ Skip(diff)
    ELSE \E q \in {_get_blob_parameters(diff, diff.change_type, commit)} :
         IF unreadable
         THEN /\ ~(IsNone(q.blob) /\ IsNone(q.old_blob))
              /\ fault = NoFault
              /\ _extract_files_except(diff)
         ELSE \E e \in {_process_blob(q.blob, q.old_blob, commit, q.path,
                                      q.previous_path, q.change_type)} :
              \E w \in {_save_content(extractor.separators,
                                      extractor.save_directories, disk, opens,
                                      q.blob, q.old_blob, e, fault)} :
                /\ fault # NoFault => w.hit
                /\ opens' = IF IsNone(w.dir) THEN opens
                            ELSE [opens EXCEPT ![Val(w.dir)] = w.opened]
                /\ \E files \in {IF IsNone(w.dir) THEN disk
                                 ELSE [disk EXCEPT ![Val(w.dir)] = w.files]} :
                     IF w.hit
                     THEN Ended("crashed", files)
                     ELSE /\ disk' = files
                          /\ entries' = _save_entry(extractor.separators,
                                                    entries, e)
                          /\ built' = Append(built, e)
                          /\ stored' = stored \o
                                [k \in 1..Len(w.calls) |->
                                    <<Val(w.dir), w.calls[k][1], w.calls[k][2]>>]
                          /\ log' = [log EXCEPT ![Len(log)].diffs =
                                        Append(@, diff)]
                          /\ UNCHANGED status

\* One round of _extract_files' loop over the commit's diff entries.
Round(diff, unreadable, fault) ==
    /\ status = "walking"
    /\ log # <<>>
    /\ UNCHANGED <<extractor, run, repo, after, output, aside>>
    /\ IF _should_process_diff(diff, WORKFLOWS_DIRECTORY)
       THEN _process_diff(diff, log[Len(log)], unreadable, fault)
       ELSE ~unreadable /\ fault = NoFault /\ Skip(diff)

\* A round on a diff entry that is chosen as the walk goes.
Chosen(diff, unreadable, fault) ==
    /\ repo = <<>>
    /\ processed < MaxDiffs
    /\ processed' = processed + 1
    /\ Round(diff, unreadable, fault)

\* The diff entry is gone through without an error.
ExtractFiles(diff) == Chosen(diff, FALSE, NoFault)

\* Reading a blob of the diff entry raises ValueError.
ExtractFilesUnreadable(diff) == Chosen(diff, TRUE, NoFault)

\* Writing a blob of the diff entry raises an I/O error.
ExtractFilesFault(diff, fault) == Chosen(diff, FALSE, fault)

\* iter_commits is exhausted: extract returns.
Return ==
    /\ status = "walking"
    /\ repo = <<>>
    /\ log # <<>> => log[Len(log)].diffs # <<>>
    /\ status' = "done"
    /\ UNCHANGED <<extractor, entries, disk, opens, log, built, stored, run,
                   processed, repo, after, output, aside>>

\* The extraction is run again over the same save directories, after a
\* run that returned, exited or crashed.
Rerun ==
    /\ status \in {"done", "exit", "crashed"}
    /\ repo = <<>>
    /\ run < MaxRuns
    /\ run' = run + 1
    /\ entries' = NoEntries(extractor.separators)
    /\ log' = <<>>
    /\ built' = <<>>
    /\ stored' = <<>>
    /\ status' = "walking"
    /\ UNCHANGED <<extractor, disk, opens, processed, repo, after, output, aside>>

Next ==
    \/ \E parents \in 0..1 : Extract(parents)
    \/ \E diff \in DiffRecords : ExtractFiles(diff)
    \/ \E diff \in DiffRecords : ExtractFilesUnreadable(diff)
    \/ \E diff \in DiffRecords, fault \in Faults : ExtractFilesFault(diff, fault)
    \/ Return
    \/ Rerun

Spec == Init /\ [][Next]_vars

\* WorkflowsExtractor.get_entries
get_entries == entries[1]

\* WorkflowsExtractor.get_auxiliary_entries
get_auxiliary_entries ==
    IF Len(entries) > 1 THEN Some(entries[2]) ELSE None

\* ------------------------------------------------- a repository's history

\* The files of the repositories that are written, and their contents.
HistoryPaths == {CI_YML, README_MD}
HistoryContents == {FLOW_A, FLOW_B, TEXT, DOC, BINARY}

\* The tree of the newest commit (a path |-> bytes function), empty at first.
head_tree(history) ==
    IF history = <<>> THEN <<>> ELSE history[Len(history)].tree

\* The trees a commit can follow tree with, each with the one diff entry
\* parent.diff(commit) (commit.diff(NULL_TREE) for the first commit) has
\* for it: a file is added, modified, deleted, or renamed as it is.
Changes(tree) ==
    {[tree |-> (p :> c) @@ tree, diff |-> Diff(ADDED, p, p, None, Some(c))] :
        p \in HistoryPaths \ DOMAIN tree, c \in HistoryContents}
    \cup {[tree |-> [tree EXCEPT ![x[1]] = x[2]],
           diff |-> Diff(MODIFIED, x[1], x[1], Some(tree[x[1]]), Some(x[2]))] :
        x \in {y \in (DOMAIN tree) \X HistoryContents : tree[y[1]] # y[2]}}
    \cup {[tree |-> [q \in DOMAIN tree \ {p} |-> tree[q]],
           diff |-> Diff(DELETED, p, p, Some(tree[p]), None)] :
        p \in DOMAIN tree}
    \cup {[tree |-> (x[2] :> tree[x[1]])
                    @@ [q \in DOMAIN tree \ {x[1]} |-> tree[q]],
           diff |-> Diff(RENAMED, x[1], x[2], Some(tree[x[1]]),
                         Some(tree[x[1]]))] :
        x \in (DOMAIN tree) \X (HistoryPaths \ DOMAIN tree)}

\* A commit is made on top of the repository's head.
Commit(change) ==
    /\ status = "committing"
    /\ Len(repo) < MaxHistory
    /\ repo' = Append(repo, [tree |-> change.tree, diffs |-> <<change.diff>>])
    /\ UNCHANGED <<extractor, entries, disk, opens, log, built, stored, status,
                   run, processed, after, output, aside>>

\* main: the extractor is run on the repository.
Start ==
    /\ status = "committing"
    /\ repo # <<>>
    /\ status' = "walking"
    /\ UNCHANGED <<extractor, entries, disk, opens, log, built, stored, run,
                   processed, repo, after, output, aside>>

\* main with --after: the extractor is run on the commits after the one at
\* the position a (the newest commit itself can be given).
StartAfter(a) ==
    /\ status = "committing"
    /\ a \in 1..Len(repo)
    /\ status' = "walking"
    /\ after' = a
    /\ UNCHANGED <<extractor, entries, disk, opens, log, built, stored, run,
                   processed, repo, output, aside>>

\* The range with the commit of after in it.
rev_range_inclusive(history, a) ==
    {c \in 1..Len(history) : a = 0 \/ c >= a}

\* ref = f"{after}..{ref}": the positions of the commits that can be reached
\* from ref and not from after, all of them without after.
rev_range(history, a) ==
    {c \in 1..Len(history) : a = 0 \/ c > a}

\* iter_commits that gives the oldest commit first.
iter_commits_oldest_first(history, n) == n

\* repository.iter_commits(ref, directory, first-parent): the position in
\* the history (1: the oldest commit) of the n-th commit that is given,
\* the newest first.
iter_commits(history, n) == Len(history) - n + 1

\* FilesExtractor.extract on the repository: the next commit is given once
\* _extract_files has gone through the diff entries of the one before.
ExtractHistory ==
    /\ status = "walking"
    /\ repo # <<>>
    /\ Len(log) < Cardinality(rev_range(repo, after))
    /\ log # <<>> =>
         Len(log[Len(log)].diffs) = Len(repo[log[Len(log)].hexsha].diffs)
    /\ \E c \in {iter_commits(repo, Len(log) + 1)} :
         log' = Append(log, [hexsha |-> c,
                             parents |-> IF c = 1 THEN 0 ELSE 1,
                             diffs |-> <<>>])
    /\ UNCHANGED <<extractor, entries, disk, opens, built, stored, status,
                   run, processed, repo, after, output, aside>>

\* _extract_files' loop on the commit's next diff entry.
ExtractFilesHistory ==
    /\ repo # <<>>
    /\ log # <<>>
    /\ Len(log[Len(log)].diffs) < Len(repo[log[Len(log)].hexsha].diffs)
    /\ Round(repo[log[Len(log)].hexsha].diffs[Len(log[Len(log)].diffs) + 1],
             FALSE, NoFault)
    /\ UNCHANGED processed

\* iter_commits is exhausted: extract returns.
ReturnHistory ==
    /\ status = "walking"
    /\ repo # <<>>
    /\ Len(log) = Cardinality(rev_range(repo, after))
    /\ log # <<>> =>
         Len(log[Len(log)].diffs) = Len(repo[log[Len(log)].hexsha].diffs)
    /\ status' = "done"
    /\ UNCHANGED <<extractor, entries, disk, opens, log, built, stored, run,
                   processed, repo, after, output, aside>>

\* What FilesExtractor.extract returns: it has no return statement.
extract_returns == None

\* utils.write_csv: one row per entry, in the order of the list.
write_csv(list) == list

\* main after extractor.extract: len(entries) raises TypeError on None and
\* the process ends; otherwise the rows of a list that is not empty are
\* written.
Main ==
    /\ status = "done"
    /\ repo # <<>>
    /\ IF IsNone(extract_returns)
       THEN /\ Ended("crashed", disk)
            /\ UNCHANGED <<opens, output>>
       ELSE /\ status' = "written"
            /\ output' = output \o write_csv(Val(extract_returns))
            /\ UNCHANGED <<entries, disk, opens, log, built, stored>>
    /\ UNCHANGED <<extractor, run, processed, repo, after, aside>>

InitHistory ==
    /\ Constructed
    /\ Aside
    /\ status = "committing"

NextHistory ==
    \/ \E change \in Changes(head_tree(repo)) : Commit(change)
    \/ Start
    \/ \E a \in 1..MaxHistory : StartAfter(a)
    \/ ExtractHistory
    \/ ExtractFilesHistory
    \/ ReturnHistory
    \/ Main

SpecHistory == InitHistory /\ [][NextHistory]_vars

\* ------------------------------------------------- the classifier alone

\* _process_blob's try block on a blob whose bytes have one more line.
Classify(line) ==
    /\ Len(text) < MaxLines
    /\ text' = Append(text, line)
    /\ flags' = classify(Some(Append(text, line)), None)
    /\ UNCHANGED <<extractor, entries, disk, opens, log, built, stored, status,
                   run, processed, repo, after, output>>
    /\ UNCHANGED <<driver, script>>

InitClassify ==
    /\ NoWalk
    /\ NoBatch
    /\ NoRows
    /\ text = <<>>
    /\ flags = classify(Some(<<>>), None)

NextClassify == \E line \in Tokens : Classify(line)

SpecClassify == InitClassify /\ [][NextClassify]_vars

\* ------------------------------------------------------ the batch driver

\* The names of the list (owner:name, the / replaced) and what os.path.isdir
\* says of each.
Names == {"o:a", "o:b"}
Listings == [name : Names, isdir : BOOLEAN]

\* sproc.returncode: 0, or the 1 of sys.exit(1) and of a traceback.
ReturnCodes == {0, 1}

\* errors_count that also counts the repositories that are not found.
count_errors_with_not_found(count, isdir, returncode) ==
    IF ~isdir \/ returncode # 0 THEN count + 1 ELSE count

\* errors_count after a round of the loop: the round of a path that is no
\* directory comes to its continue before the count.
count_errors(count, isdir, returncode) ==
    IF isdir /\ returncode # 0 THEN count + 1 ELSE count

\* open(base + ".out.txt", "w") and open(base + ".err.txt", "w") and their
\* write: the files are made or replaced.  out and err of the subprocess
\* at the position i of the list are <<"out", i>> and <<"err", i>>.
write_errors(files, name, i) ==
    {f \in files : f[1] \notin {<<name, ".out.txt">>, <<name, ".err.txt">>}}
    \cup {<<<<name, ".out.txt">>, <<"out", i>>>>,
          <<<<name, ".err.txt">>, <<"err", i>>>>}

\* gigawork --output <name>.csv: open(output, "a") and write_csv, the rows
\* of the run at the position i of the list after what the file held.
append_csv(files, name, i) ==
    (<<name, ".csv">> :> ((IF <<name, ".csv">> \in DOMAIN files
                           THEN files[<<name, ".csv">>] ELSE <<>>)
                          \o <<<<name, i>>>>))
    @@ files

\* One round of batch's loop over to_process.  wrote: the subprocess that
\* exited with 0 had entries and wrote its rows.
Batch(returncode, wrote) ==
    /\ printed = <<>>
    /\ Len(attempts) < Len(to_process)
    /\ \E i \in {Len(attempts) + 1} :
        \E r \in {to_process[i]} :
            /\ attempts' = Append(attempts,
                    [name |-> r.name, launched |-> r.isdir,
                     returncode |-> IF r.isdir THEN Some(returncode)
                                    ELSE None,
                     wrote |-> r.isdir /\ returncode = 0 /\ wrote])
            /\ output_directory' =
                    IF r.isdir /\ returncode = 0 /\ wrote
                    THEN append_csv(output_directory, r.name, i)
                    ELSE output_directory
            /\ errors_count' = count_errors(errors_count, r.isdir, returncode)
            /\ error_files' =
                    IF r.isdir /\ returncode # 0 /\ error_directory
                    THEN write_errors(error_files, r.name, i)
                    ELSE error_files
    /\ UNCHANGED <<extractor, entries, disk, opens, log, built, stored, status,
                   run, processed, repo, after, output>>
    /\ UNCHANGED <<text, flags, to_process, error_directory, printed, merged,
                   script>>

\* The loop is over: print(f"There was {errors_count} errors ...").
BatchPrint ==
    /\ printed = <<>>
    /\ Len(attempts) = Len(to_process)
    /\ printed' = Some(errors_count)
    /\ UNCHANGED <<extractor, entries, disk, opens, log, built, stored, status,
                   run, processed, repo, after, output>>
    /\ UNCHANGED <<text, flags, to_process, attempts, errors_count,
                   error_files, error_directory, output_directory, merged,
                   script>>

HEADERS == "repository,commit_hash,...,valid_workflow"
MERGED == <<"merged", ".csv.gz">>

\* The orders os.listdir can give the names in.
Orders(names) ==
    {o \in [1..Cardinality(names) -> names] :
        \A i, j \in 1..Cardinality(names) : i # j => o[i] # o[j]}

\* The loop of the merge over the names in the order given: the text of
\* each file is written after what was written before.  The file of
\* outfile is among the names: read while it is being written it is
\* empty as long as no byte of it has reached the disk (own = "empty"),
\* and its compressed bytes do not decode as UTF-8 once some have
\* (own = "raises").
RECURSIVE merge_files(_, _, _, _)
merge_files(files, order, own, written) ==
    IF order = <<>> THEN [content |-> written, raised |-> FALSE]
    ELSE IF order[1] = MERGED
         THEN IF own = "raises" THEN [content |-> written, raised |-> TRUE]
              ELSE merge_files(files, Tail(order), own, written)
         ELSE merge_files(files, Tail(order), own,
                          Append(written, files[order[1]]))

\* The merge after the loop: gzip.open(outfile, "wt") makes merged.csv.gz
\* in the output directory, the headers are written, then every file that
\* os.listdir(output_directory) names is read and written.
Merge(order, own) ==
    /\ ~IsNone(printed)
    /\ IsNone(merged)
    /\ order \in Orders(DOMAIN output_directory \cup {MERGED})
    /\ \E m \in {merge_files(output_directory, order, own, <<HEADERS>>)} :
        /\ merged' = Some(m)
        /\ output_directory' = (MERGED :> m.content) @@ output_directory
    /\ UNCHANGED <<extractor, entries, disk, opens, log, built, stored, status,
                   run, processed, repo, after, output>>
    /\ UNCHANGED <<text, flags, to_process, attempts, errors_count,
                   error_files, error_directory, printed, script>>

\* What the output directory can hold before the batch: nothing, or the
\* file of a repository of an earlier batch.
Earlier == {<<>>, <<"o:c", ".csv">> :> <<<<"o:c", 0>>>>}

InitBatch ==
    /\ NoWalk
    /\ NoText
    /\ NoRows
    /\ to_process \in UNION {[1..n -> Listings] : n \in 0..MaxRepos}
    /\ error_directory \in BOOLEAN
    /\ attempts = <<>>
    /\ errors_count = 0
    /\ error_files = {}
    /\ printed = <<>>
    /\ output_directory \in Earlier
    /\ merged = <<>>

NextBatch ==
    \/ \E returncode \in ReturnCodes, wrote \in BOOLEAN : Batch(returncode, wrote)
    \/ BatchPrint
    \/ \E order \in Orders(DOMAIN output_directory \cup {MERGED}), own \in {"empty", "raises"} : Merge(order, own)

SpecBatch == InitBatch /\ [][NextBatch]_vars

\* -------------------------------------------------------- the uid script

\* The repository and path cells of the rows.
Repositories == {"o/a", "o/b"}
Files == {".github/workflows/a.yml", ".github/workflows/b.yml"}

\* A row of the CSV file: a null cell is None; the hashes are "h" or null.
Row(repository, file_path, previous_file_path, file_hash, previous_file_hash, commit_hash) ==
    [repository |-> repository,
     file_path |-> file_path,
     previous_file_path |-> previous_file_path,
     file_hash |-> file_hash,
     previous_file_hash |-> previous_file_hash,
     commit_hash |-> commit_hash]

\* The rows gigawork writes for a file that is added, modified, renamed
\* and deleted in the commit n.
Rows(n) ==
    {Row(r, Some(f), None, Some("h"), None, n) : r \in Repositories, f \in Files}
    \cup {Row(r, Some(f), Some(f), Some("h"), Some("h"), n) :
            r \in Repositories, f \in Files}
    \cup {Row(r, Some(x[2]), Some(x[1]), Some("h"), Some("h"), n) :
            r \in Repositories, x \in {y \in Files \X Files : y[1] # y[2]}}
    \cup {Row(r, None, Some(f), None, Some("h"), n) :
            r \in Repositories, f \in Files}

\* The uid of an add row made of the repository and the path alone.
make_id_of_path(c) == <<c.repository, Val(c.file_path)>>

\* '/'.join((c['repository'], c['file_path'], str(c['commit_hash']))): the
\* three parts stand for the string, which has them apart as long as the
\* repository has no other "/" than the one of owner/name.
make_id(c) == <<c.repository, Val(c.file_path), c.commit_hash>>

\* del generated_ids[k] / generated_ids.pop(k)
del(ids, k) == [j \in DOMAIN ids \ {k} |-> ids[j]]

\* gen_id whose rename leaves the previous key in the dictionary.
gen_id_keeping_rkey(ids, c) ==
    LET key == <<c.repository, c.file_path>>
        rkey == <<c.repository, c.previous_file_path>>
        existing == key \in DOMAIN ids
        ValueError == [ids |-> ids, uid |-> None, raised |-> TRUE]
    IN  IF IsNone(c.file_hash)
        THEN IF rkey \notin DOMAIN ids THEN ValueError
             ELSE [ids |-> del(ids, rkey), uid |-> Some(ids[rkey]),
                   raised |-> FALSE]
        ELSE IF IsNone(c.previous_file_hash)
        THEN IF existing THEN ValueError
             ELSE [ids |-> (key :> make_id(c)) @@ ids,
                   uid |-> Some(make_id(c)), raised |-> FALSE]
        ELSE IF key # rkey
        THEN IF rkey \notin DOMAIN ids \/ existing THEN ValueError
             ELSE [ids |-> (key :> ids[rkey]) @@ ids,
                   uid |-> Some(ids[rkey]), raised |-> FALSE]
        ELSE IF ~existing THEN ValueError
        ELSE [ids |-> ids, uid |-> Some(ids[key]), raised |-> FALSE]

\* gen_id(c) on the dictionary ids: the dictionary after it and the uid it
\* returns, or that it raised ValueError.
gen_id(ids, c) ==
    LET key == <<c.repository, c.file_path>>
        rkey == <<c.repository, c.previous_file_path>>
        existing == key \in DOMAIN ids
        ValueError == [ids |-> ids, uid |-> None, raised |-> TRUE]
    IN  IF IsNone(c.file_hash)
        THEN IF rkey \notin DOMAIN ids THEN ValueError
             ELSE [ids |-> del(ids, rkey), uid |-> Some(ids[rkey]),
                   raised |-> FALSE]
        ELSE IF IsNone(c.previous_file_hash)
        THEN IF existing THEN ValueError
             ELSE [ids |-> (key :> make_id(c)) @@ ids,
                   uid |-> Some(make_id(c)), raised |-> FALSE]
        ELSE IF key # rkey
        THEN IF rkey \notin DOMAIN ids \/ existing THEN ValueError
             ELSE [ids |-> (key :> ids[rkey]) @@ del(ids, rkey),
                   uid |-> Some(ids[rkey]), raised |-> FALSE]
        ELSE IF ~existing THEN ValueError
        ELSE [ids |-> ids, uid |-> Some(ids[key]), raised |-> FALSE]

\* The paths a row names.
PathsOf(c) == {Val(p) : p \in {c.file_path, c.previous_file_path} \ {None}}

\* The commits the next row can be of: a new one, or the one of the row
\* before it when no row of that commit and repository has a path of the
\* row (a diff has one entry per path).
NextRows(done) ==
    Rows(IF done = <<>> THEN 1 ELSE done[Len(done)].commit_hash + 1)
    \cup {c \in Rows(IF done = <<>> THEN 1 ELSE done[Len(done)].commit_hash) :
            \A j \in 1..Len(done) :
                (/\ done[j].commit_hash = c.commit_hash
                 /\ done[j].repository = c.repository)
                    => PathsOf(done[j]) \cap PathsOf(c) = {}}

\* main's apply over the rows in reverse order: gen_id on the next row,
\* the oldest first; a ValueError ends the script.
GenId(c) ==
    /\ ~raised
    /\ Len(rows) < MaxRows
    /\ rows' = Append(rows, c)
    /\ \E g \in {gen_id(generated_ids, c)} :
        /\ generated_ids' = g.ids
        /\ raised' = g.raised
        /\ uids' = uids \o g.uid
    /\ UNCHANGED <<extractor, entries, disk, opens, log, built, stored, status,
                   run, processed, repo, after, output>>
    /\ UNCHANGED <<text, flags, driver>>

InitUid ==
    /\ NoWalk
    /\ NoText
    /\ NoBatch
    /\ NoRows

NextUid == \E c \in NextRows(rows) : GenId(c)

SpecUid == InitUid /\ [][NextUid]_vars

\* ------------------------------------- the uid script on a walk's entries

\* The row of an Entry in the CSV file of the repository o/a: write_csv
\* with repository_name; a None cell is read back as null.
to_row(e) ==
    Row("o/a", e.file_path, e.previous_file_path, e.file_hash, e.previous_file_hash, e.commit_hash)

\* main of the uid script on the rows of the entries of the first
\* partition list of a walk that returned: gen_id on the next row, from
\* the last row of the file to the first.
Stitch ==
    /\ status = "done"
    /\ repo # <<>>
    /\ ~raised
    /\ Len(rows) < Len(get_entries)
    /\ \E c \in {to_row(get_entries[Len(get_entries) - Len(rows)])} :
        \E g \in {gen_id(generated_ids, c)} :
            /\ rows' = Append(rows, c)
            /\ generated_ids' = g.ids
            /\ raised' = g.raised
            /\ uids' = uids \o g.uid
    /\ UNCHANGED <<extractor, entries, disk, opens, log, built, stored, status,
                   run, processed, repo, after, output>>
    /\ UNCHANGED <<text, flags, driver>>

NextStitch ==
    \/ NextHistory
    \/ Stitch

SpecStitch == InitHistory /\ [][NextStitch]_vars

\* ---------------------------------------------------------- properties

Range(seq) == {seq[k] : k \in 1..Len(seq)}

\* The entries in the partition lists.
Listed == UNION {Range(entries[i]) : i \in DOMAIN entries}

\* The path the router looks at: file_path, or previous_file_path without it.
PathOf(e) ==
    IF ~IsNone(e.file_path) THEN e.file_path ELSE e.previous_file_path

\* C1: every Entry built from a diff entry of a commit with zero parents has
\* the change type 'added', whatever status letter the diff entry carried.
C1_RootCommitEntriesAreAdded ==
    \A c \in Range(log) :
        c.parents = 0 =>
            \A e \in Range(built) \cup Listed :
                e.commit_hash = c.hexsha => e.change_type = ADDED

\* A commit with zero parents had a diff entry with another status letter
\* than A, and the Entry of it was built.
C1_Witness ==
    \E c \in Range(log) :
        /\ c.parents = 0
        /\ \E d \in Range(c.diffs), e \in Range(built) :
            /\ d.change_type \in {DELETED, MODIFIED, RENAMED}
            /\ e.commit_hash = c.hexsha
            /\ e.previous_file_path = Some(d.a_path)
            /\ e.change_type = ADDED

\* The history of C2: ci.yml is added with the bytes c1, modified to the
\* bytes c2 and deleted, one commit each.
ThreeCommits(c1, c2) ==
    /\ Len(repo) = 3
    /\ repo[1].diffs = <<Diff(ADDED, CI_YML, CI_YML, None, Some(c1))>>
    /\ repo[2].diffs = <<Diff(MODIFIED, CI_YML, CI_YML, Some(c1), Some(c2))>>
    /\ repo[3].diffs = <<Diff(DELETED, CI_YML, CI_YML, Some(c2), None)>>

ValidWorkflows == {c \in HistoryContents : is_valid_workflow(c)[3]}

\* C2: after the walk of a history whose commit 1 adds a valid workflow
\* .github/workflows/ci.yml, commit 2 modifies it to another valid one and
\* commit 3 deletes it, the primary list is exactly [deleted of commit 3,
\* modified of commit 2, added of commit 1], each hash is the SHA-256 of the
\* committed version, and the save directories hold exactly the two blobs
\* (the extractor has a save directory for its workflows).
C2_ThreeCommitsNewestFirst ==
    \A c1 \in ValidWorkflows, c2 \in ValidWorkflows :
        (/\ status = "done" /\ after = 0 /\ ThreeCommits(c1, c2)
         /\ extractor.save_directories[1] = Some("workflows")) =>
            /\ Len(get_entries) = 3
            /\ [k \in 1..3 |-> get_entries[k].change_type]
                    = <<DELETED, MODIFIED, ADDED>>
            /\ [k \in 1..3 |-> get_entries[k].commit_hash] = <<3, 2, 1>>
            /\ [k \in 1..3 |-> get_entries[k].file_hash]
                    = <<None, Some(sha256(c2)), Some(sha256(c1))>>
            /\ [k \in 1..3 |-> get_entries[k].previous_file_hash]
                    = <<Some(sha256(c2)), Some(sha256(c1)), None>>
            /\ DOMAIN disk["workflows"] = {sha256(c1), sha256(c2)}
            /\ Cardinality(DOMAIN disk["workflows"]) = 2
            /\ disk["workflows"][sha256(c1)] = c1
            /\ disk["workflows"][sha256(c2)] = c2
            /\ DOMAIN disk["auxiliaries"] = {}

\* The walk of such a history has returned.
C2_Witness ==
    /\ status = "done"
    /\ extractor.save_directories[1] = Some("workflows")
    /\ after = 0
    /\ ThreeCommits(FLOW_A, FLOW_B)
    /\ Len(built) = 3

\* C3: when the same bytes b were stored twice into one save directory,
\* both times gave the same digest and the file of that name holds b.
C3_StoreTwiceRoundTrips ==
    \A i \in 1..Len(stored), j \in 1..Len(stored) :
        (i < j /\ stored[i][1] = stored[j][1] /\ stored[i][2] = stored[j][2])
        => /\ stored[i][3] = stored[j][3]
           /\ stored[i][3] \in DOMAIN disk[stored[i][1]]
           /\ disk[stored[i][1]][stored[i][3]] = stored[i][2]

\* C4: in every state of the save directories, over all the runs, every
\* file is named by the SHA-256 digest of the bytes it holds.
C4_FilesNamedByTheirDigest ==
    \A sd \in Dirs :
        \A name \in DOMAIN disk[sd] : sha256(disk[sd][name]) = name

\* C5: the file of a digest is opened for writing at most once, and a file
\* that exists keeps its name and its bytes in every step; so the second
\* store of a rename with equal hashes writes nothing.
C5_WrittenAtMostOnce ==
    /\ [](\A sd \in Dirs : \A name \in DOMAIN opens[sd] : opens[sd][name] <= 1)
    /\ [][\A sd \in Dirs : \A name \in DOMAIN disk[sd] :
            /\ name \in DOMAIN disk'[sd]
            /\ disk'[sd][name] = disk[sd][name]]_vars

\* A rename with equal hashes was processed: its two store rounds follow
\* each other, and the file was opened once.
C5_Witness ==
    \E e \in Range(built), i \in 1..Len(stored) :
        /\ e.change_type = RENAMED
        /\ e.file_hash = e.previous_file_hash
        /\ i < Len(stored)
        /\ stored[i] = stored[i + 1]
        /\ stored[i][3] = Val(e.file_hash)
        /\ opens[stored[i][1]][stored[i][3]] = 1

\* The separators that accept the entry, and the first of them.
Accepting(e) ==
    {i \in 1..Len(extractor.separators) : accepts(extractor.separators[i], e)}

FirstAccepting(e) ==
    {i \in Accepting(e) : \A j \in Accepting(e) : i <= j}

\* C6: each partition list holds, in the order they were built, exactly
\* the entries whose lowest-index accepting separator is its own (an entry
\* no separator accepts is in no list), and a step of a walk only appends
\* to the lists.
C6_RoutedToFirstAccepting ==
    /\ [](\A i \in DOMAIN entries :
            entries[i] = SelectSeq(built, LAMBDA e : i \in FirstAccepting(e)))
    /\ [][(status = "walking" /\ status' = "walking" /\ run' = run) =>
            \A i \in DOMAIN entries :
                /\ Len(entries[i]) <= Len(entries'[i])
                /\ SubSeq(entries'[i], 1, Len(entries[i])) = entries[i]]_vars

\* An entry that both separators accept and an entry that only the second
\* accepts were routed in one walk.
C6_Witness ==
    /\ Len(extractor.separators) = 2
    /\ \E e \in Range(entries[1]) : Accepting(e) = {1, 2}
    /\ \E e \in Range(entries[2]) : Accepting(e) = {2}

\* C7: an entry is in the primary list if and only if its path matches
\* .github/workflows/*.yml or *.yaml and it is a valid or a probable workflow.
C7_PrimaryIffWorkflowPath ==
    \A e \in Range(built) :
        (e \in Range(get_entries))
        <=> (/\ is_workflow_path(PathOf(e))
             /\ (e.valid_workflow \/ e.probably_workflow))

\* C8: without auxiliaries, a change of a file under the directory whose
\* path is no workflow path (README.md) is in no list, and there is no
\* auxiliary list.
C8_NoEntryWithoutAuxiliaries ==
    Len(extractor.separators) = 1 =>
        /\ get_auxiliary_entries = None
        /\ \A e \in Range(built) :
            ~is_workflow_path(PathOf(e)) => e \notin Listed

\* C9: with auxiliaries, every entry built is in exactly one of the two
\* lists, and a change of a file whose path is no workflow path (README.md)
\* is in the auxiliary list and not in the primary one.
C9_AuxiliaryOnlyWithAuxiliaries ==
    Len(extractor.separators) = 2 =>
        /\ Len(entries[1]) + Len(entries[2]) = Len(built)
        /\ \A e \in Range(built) :
            /\ (e \in Range(entries[1])) # (e \in Range(entries[2]))
            /\ ~is_workflow_path(PathOf(e)) =>
                    /\ e \notin Range(entries[1])
                    /\ e \in Range(entries[2])

\* C10: every Entry built has a file_path or a previous_file_path, and a
\* file_hash or a previous_file_hash (no Entry is built when reading a blob
\* fails: the run exits).
C10_OnePathAndOneHash ==
    \A e \in Range(built) :
        /\ ~IsNone(e.file_path) \/ ~IsNone(e.previous_file_path)
        /\ ~IsNone(e.file_hash) \/ ~IsNone(e.previous_file_hash)

\* Entries with only the previous side and with only the new side were built.
C10_Witness ==
    /\ \E e \in Range(built) :
        /\ IsNone(e.file_path) /\ IsNone(e.file_hash)
        /\ ~IsNone(e.previous_file_path) /\ ~IsNone(e.previous_file_hash)
    /\ \E e \in Range(built) :
        /\ IsNone(e.previous_file_path) /\ IsNone(e.previous_file_hash)
        /\ ~IsNone(e.file_path) /\ ~IsNone(e.file_hash)

\* C11: no Entry has valid_workflow without valid_yaml: a text that does
\* not parse gives both flags false, one that parses and fails the schema
\* gives valid_yaml alone.
C11_ValidWorkflowImpliesValidYaml ==
    \A e \in Range(built) \cup Listed : e.valid_workflow => e.valid_yaml

\* Entries of a text that does not parse and of one that parses and fails
\* the schema were built.
C11_Witness ==
    /\ \E e \in Range(built) : ~e.valid_yaml /\ ~e.valid_workflow
    /\ \E e \in Range(built) : e.valid_yaml /\ ~e.valid_workflow

\* C12: probably_workflow is true if and only if the text has a line
\* with the key on and a line with the key jobs; a runs-on: line is no
\* line with the key on.
C12_ProbableIffOnAndJobsKeys ==
    decodes(text) =>
        (flags[2] <=> (/\ \E i \in 1..Len(text) : text[i] = "on:"
                       /\ \E i \in 1..Len(text) : text[i] = "jobs:"))

\* C13: a line with a syntax error added to a text makes valid_yaml false
\* and leaves probably_workflow as it was.
C13_ProbableWhateverTheParse ==
    [][text' = Append(text, "{") =>
        (~flags'[1] /\ ~flags'[3] /\ flags'[2] = flags[2])]_vars

\* A text with the two keys and a syntax error was classified.
C13_Witness ==
    /\ text = <<"on:", "jobs:", "{">>
    /\ ~flags[1]
    /\ flags[2]

\* The bytes of the diff entry that are classified cannot be decoded.
Undecodable(d) ==
    ~decodes(Val(IF d.change_type = DELETED THEN d.a_blob ELSE d.b_blob))

\* The Entry has the commit, the paths and the hashes of the diff entry.
Intact(e, d, c) ==
    /\ e.commit_hash = c
    /\ e.file_path = IF d.change_type = DELETED THEN None ELSE Some(d.b_path)
    /\ e.previous_file_path =
            IF d.change_type = ADDED THEN None ELSE Some(d.a_path)
    /\ e.file_hash = IF d.change_type = DELETED THEN None
                     ELSE Some(sha256(Val(d.b_blob)))
    /\ e.previous_file_hash = IF d.change_type = ADDED THEN None
                              ELSE Some(sha256(Val(d.a_blob)))

\* C14: a walk over a repository with blobs that cannot be decoded, parsed
\* or validated returns with one Entry for the diff entry of every commit
\* of the range, in the order of the walk, its paths and hashes intact and
\* its three flags false when the bytes cannot be decoded.
C14_ContentFailuresAreNotFatal ==
    status = "done" =>
        /\ Len(built) = Len(repo) - after
        /\ \A k \in 1..Len(built) :
            /\ Intact(built[k], repo[Len(repo) - k + 1].diffs[1],
                      Len(repo) - k + 1)
            /\ Undecodable(repo[Len(repo) - k + 1].diffs[1]) =>
                    /\ ~built[k].valid_yaml
                    /\ ~built[k].probably_workflow
                    /\ ~built[k].valid_workflow

\* A walk went through bytes that cannot be decoded in the newest commit,
\* then through two more commits, and returned.
C14_Witness ==
    /\ status = "done"
    /\ Len(built) = 3
    /\ Undecodable(repo[3].diffs[1])
    /\ built[2].valid_yaml

\* The diff entries of the commits gone through, in the order of the walk.
RECURSIVE Diffs(_)
Diffs(commits) ==
    IF commits = <<>> THEN <<>>
    ELSE Diffs([i \in 1..(Len(commits) - 1) |-> commits[i]])
            \o commits[Len(commits)].diffs

\* The diff entries under the workflows directory whose status letter the
\* enumeration knows.
Recognised(diffs) ==
    SelectSeq(diffs, LAMBDA d : /\ d.change_type \in ChangeTypes
                                /\ \/ startswith(d.a_path, WORKFLOWS_DIRECTORY)
                                   \/ startswith(d.b_path, WORKFLOWS_DIRECTORY))

\* The step goes through a diff entry whose status letter is unknown.
UnknownTaken ==
    /\ log # <<>>
    /\ Len(log') = Len(log)
    /\ Len(log'[Len(log)].diffs) = Len(log[Len(log)].diffs) + 1
    /\ log'[Len(log)].diffs[Len(log'[Len(log)].diffs)].change_type
            \notin ChangeTypes

\* C15: a diff entry with an unknown status letter makes no Entry, writes no
\* blob and leaves the walk running; the entries built are those of the
\* other diff entries of the walk, one each.
C15_UnknownChangeTypeIsSkipped ==
    /\ [](Len(built) = Len(Recognised(Diffs(log))))
    /\ [][UnknownTaken =>
            UNCHANGED <<entries, built, stored, disk, opens, status>>]_vars

\* A walk skipped a diff entry with an unknown status letter, built the
\* Entry of the diff entry that followed and returned.
C15_Witness ==
    /\ status = "done"
    /\ Len(Diffs(log)) = 2
    /\ Diffs(log)[1].change_type \notin ChangeTypes
    /\ Len(built) = 1

\* The step is one in which reading a blob of a diff entry fails.
ReadFails == \E diff \in DiffRecords : ExtractFilesUnreadable(diff)

\* C16: when a blob of a diff entry cannot be read the run ends at that diff
\* entry with a non-zero exit status, the files written before are left as
\* they are, and nothing is processed after it but by a new run.
C16_UnreadableBlobIsFatal ==
    [][/\ ReadFails => status' = "exit" /\ disk' = disk /\ opens' = opens
       /\ status = "exit" => status' = "walking" /\ run' = run + 1
                             /\ built' = <<>> /\ log' = <<>>]_vars

\* A run stored the blob of one diff entry and ended on the next one, whose
\* blob could not be read.
C16_Witness ==
    /\ status = "exit"
    /\ processed = 2
    /\ run = 1
    /\ \E sd \in Dirs : disk[sd] # <<>>

\* C17: with after given, no Entry has the hash of the commit of after or of
\* a commit that can be reached from it, and a walk that returned has built
\* an Entry for every commit after it that touches the directory.
C17_OnlyCommitsAfterAfter ==
    after > 0 =>
        /\ \A e \in Range(built) \cup Listed : e.commit_hash > after
        /\ \A c \in Range(log) : c.hexsha > after
        /\ status = "done" =>
                \A c \in (after + 1)..Len(repo) :
                    \E e \in Range(built) : e.commit_hash = c

\* A walk over three commits with after at the oldest one returned with the
\* entries of the two commits after it.
C17_Witness ==
    /\ status = "done"
    /\ after = 1
    /\ Len(repo) = 3
    /\ Len(built) = 2

\* C19: after a walk that returned, main writes one row per Entry of the
\* first partition list, in the order of the walk.
C19_MainWritesThePrimaryEntries ==
    [][(status = "done" /\ repo # <<>> /\ status' # "done") =>
            (status' = "written" /\ output' = write_csv(get_entries))]_vars

\* The rounds so far in which gigawork was launched and exited non-zero.
Failed == {k \in 1..Len(attempts) :
            attempts[k].launched /\ Val(attempts[k].returncode) # 0}

IsAdd(c) == IsNone(c.previous_file_path)

\* The latest row before the row k that left a file at the path the row k
\* takes its file from.
Before(k) ==
    CHOOSE j \in 1..(k - 1) :
        /\ rows[j].repository = rows[k].repository
        /\ rows[j].file_path = rows[k].previous_file_path
        /\ \A i \in (j + 1)..(k - 1) :
            ~(/\ rows[i].repository = rows[k].repository
              /\ rows[i].file_path = rows[k].previous_file_path)

\* The add row of the file the row k is about.
RECURSIVE Origin(_)
Origin(k) == IF IsAdd(rows[k]) THEN k ELSE Origin(Before(k))

\* The (repository, path) keys at which the rows gen_id returned for have
\* left a file: the latest of these rows to name the path has it as its
\* file_path.
LiveKeys ==
    {key \in Repositories \X {Some(f) : f \in Files} :
        \E k \in 1..Len(uids) :
            /\ rows[k].repository = key[1]
            /\ rows[k].file_path = key[2]
            /\ \A i \in (k + 1)..Len(uids) :
                ~(/\ rows[i].repository = key[1]
                  /\ key[2] \in {rows[i].file_path,
                                 rows[i].previous_file_path})}

\* C20: the uid gen_id returns for a row is the one made on the add row of
\* the file the row is about, through modify, rename and delete rows; the
\* paths with a live uid are those a file is at: not the previous path of a
\* rename row, not the path of a delete row.
C20_UidFollowsTheFile ==
    /\ \A k \in 1..Len(uids) :
        uids[k] = <<rows[Origin(k)].repository,
                    Val(rows[Origin(k)].file_path),
                    rows[Origin(k)].commit_hash>>
    /\ DOMAIN generated_ids = LiveKeys
    /\ \A key \in DOMAIN generated_ids :
        \E k \in 1..Len(uids) : IsAdd(rows[k]) /\ generated_ids[key] = uids[k]

\* A file was added, modified, renamed and deleted: the four rows have the
\* uid of the add row and no path is left with a live uid.
C20_Witness ==
    /\ Len(uids) = 4
    /\ IsAdd(rows[1])
    /\ rows[2].file_path = rows[2].previous_file_path
    /\ ~IsNone(rows[3].file_path) /\ rows[3].file_path # rows[3].previous_file_path
    /\ IsNone(rows[4].file_path)
    /\ uids[4] = uids[1]
    /\ DOMAIN generated_ids = {}

\* The step goes through one more diff entry of the commit the walk is at.
DiffTaken ==
    /\ log # <<>>
    /\ Len(log') = Len(log)
    /\ Len(log'[Len(log)].diffs) = Len(log[Len(log)].diffs) + 1

\* The diff entry the step goes through.
TakenDiff == log'[Len(log)].diffs[Len(log'[Len(log)].diffs)]

\* C21: a rename diff entry of a commit that has a parent gives one Entry
\* with the new path as file_path and the old path as previous_file_path,
\* of change type modified when the two hashes differ and renamed when
\* they are the same.
C21_RenameIsOneEntry ==
    [][(DiffTaken /\ TakenDiff.change_type = RENAMED
            /\ log[Len(log)].parents > 0) =>
        /\ Len(built') = Len(built) + 1
        /\ \A k \in 1..Len(built) : built'[k] = built[k]
        /\ \E e \in {built'[Len(built')]} :
            /\ e.file_path = Some(TakenDiff.b_path)
            /\ e.previous_file_path = Some(TakenDiff.a_path)
            /\ e.file_hash = Some(sha256(Val(TakenDiff.b_blob)))
            /\ e.previous_file_hash = Some(sha256(Val(TakenDiff.a_blob)))
            /\ e.change_type = IF TakenDiff.a_blob # TakenDiff.b_blob
                               THEN MODIFIED ELSE RENAMED]_vars

\* A walk built the Entry of a rename that left the bytes as they were and
\* the Entry of a rename that changed them.
C21_Witness ==
    /\ Len(built) = 2
    /\ built[1].change_type = RENAMED
    /\ built[1].file_hash = built[1].previous_file_hash
    /\ built[2].change_type = MODIFIED
    /\ built[2].file_path # built[2].previous_file_path
    /\ built[2].file_hash # built[2].previous_file_hash

\* The Entry has its new side, its old side.
HasNew(e) == ~IsNone(e.file_path) /\ ~IsNone(e.file_hash)
HasOld(e) == ~IsNone(e.previous_file_path) /\ ~IsNone(e.previous_file_hash)
NoNew(e) == IsNone(e.file_path) /\ IsNone(e.file_hash)
NoOld(e) == IsNone(e.previous_file_path) /\ IsNone(e.previous_file_hash)

\* C22: an added Entry has the new side only, a deleted Entry the old side
\* only, a modified or renamed Entry both sides.
C22_SidesMatchChangeType ==
    \A e \in Range(built) \cup Listed :
        /\ e.change_type \in ChangeTypes
        /\ e.change_type = ADDED => HasNew(e) /\ NoOld(e)
        /\ e.change_type = DELETED => NoNew(e) /\ HasOld(e)
        /\ e.change_type \in {MODIFIED, RENAMED} => HasNew(e) /\ HasOld(e)

\* A walk built an added, a deleted and a renamed Entry.
C22_Witness ==
    /\ status = "done"
    /\ {e.change_type : e \in Range(built)} = {ADDED, DELETED, RENAMED}

\* The Entry comes from a rename: it is renamed, or it is modified and its
\* two paths differ.
FromRename(e) ==
    \/ e.change_type = RENAMED
    \/ e.change_type = MODIFIED /\ e.file_path # e.previous_file_path

\* C23: previous_file_path is null in every Entry but those of renames.
C23_PreviousPathOnlyForRenames ==
    \A e \in Range(built) \cup Listed :
        ~IsNone(e.previous_file_path) => FromRename(e)

\* The save directory of the partition i, none when it is None.
SaveDirectory(i) == extractor.save_directories[i]

C25_PrimaryRowsAreSelfContained == after = 0 => ~raised

\* The hashes of the Entry that are not null.
Hashes(e) == Range(e.file_hash) \cup Range(e.previous_file_hash)

\* C26: every hash of an Entry in the list of a partition that has a save
\* directory is the name of a file of that directory, from the step that
\* appends the Entry on; a step in which the store fails appends nothing.
C26_NoDanglingDigest ==
    /\ [](\A i \in DOMAIN entries :
            ~IsNone(SaveDirectory(i)) =>
                \A e \in Range(entries[i]) :
                    Hashes(e) \subseteq DOMAIN disk[Val(SaveDirectory(i))])
    /\ [][status' = "crashed" => entries' = NoEntries(extractor.separators)]_vars

\* A modified Entry is in the list of a partition with a save directory and
\* both its blobs are files of that directory, in a second run over the
\* save directories.
C26_Witness ==
    /\ run = 2
    /\ \E i \in DOMAIN entries :
        /\ ~IsNone(SaveDirectory(i))
        /\ \E e \in Range(entries[i]) :
            /\ e.change_type = MODIFIED
            /\ e.file_hash # e.previous_file_hash
            /\ Cardinality(DOMAIN disk[Val(SaveDirectory(i))]) = 2

NotFound == {k \in 1..Len(attempts) : ~attempts[k].launched}

\* C29: the count printed at the end of the batch is the number of the
\* repositories that are not found plus that of the subprocesses that
\* exited non-zero.
C29_CountIncludesNotFound ==
    ~IsNone(printed) => Val(printed) = Cardinality(NotFound \cup Failed)

\* The files the subprocesses of this batch wrote rows to.
Produced == {<<attempts[k].name, ".csv">> : k \in {j \in 1..Len(attempts) : attempts[j].wrote}}

\* C28: merged.csv.gz is the header line followed by the text of each CSV
\* file the batch produced, once each, and nothing else.
C28_MergedIsTheCsvFiles ==
    ~IsNone(merged) =>
        /\ ~Val(merged).raised
        /\ Val(merged).content[1] = HEADERS
        /\ Len(Val(merged).content) = 1 + Cardinality(Produced)
        /\ \A f \in Produced :
            \E k \in 2..Len(Val(merged).content) :
                Val(merged).content[k] = output_directory[f]

====
